---------------------------- MODULE Spec2Model ----------------------------
(***************************************************************************)
(* Model of the function-hooking engine of nmd_memory.h (_WIN64 build):     *)
(* the instruction length decoder _nmd_mem_ldisasm, the hook page allocator *)
(* _nmd_alloc_hook_data_near and the operations nmd_hook / nmd_unhook.      *)
(*                                                                         *)
(* Memory is modelled byte by byte.  An address is a pair <<page, offset>>  *)
(* standing for page * 0x1000 + offset, because a 64-bit address does not   *)
(* fit TLC's integers; all address arithmetic is done on pairs.  The        *)
(* modelled address space lies below 2^43, so uintptr_t arithmetic never    *)
(* wraps around 2^64 in the model.                                          *)
(***************************************************************************)
EXTENDS Integers, Sequences, FiniteSets, TLC

(***************************************************************************)
(* Program constants.                                                      *)
(***************************************************************************)
PageSize == 4096
PageHdrSize == 8
DataHdrSize == 4
MinSplit == 10
TYPE_NONE == 0
TYPE_TRAMPOLINE == 1
TYPE_ABSOLUTE_JUMP == 2
AbsJumpSize == 12
JmpSize == 5
MaxPrefixes == 14
PAGE_EXECUTE_READ == 32
PAGE_EXECUTE_READWRITE == 64

\* (uintptr_t)1 << 31, as a byte distance <<pages, offset>>.
TwoTo31 == <<2^19, 0>>

NULL == <<0, 0>>

(***************************************************************************)
(* Address arithmetic on <<page, offset>> pairs.  A distance is a pair of   *)
(* the same shape whose page part may be negative.                         *)
(***************************************************************************)
AAdd(a, n) == <<a[1] + ((a[2] + n) \div PageSize), (a[2] + n) % PageSize>>

AAddD(a, d) == <<a[1] + d[1] + ((a[2] + d[2]) \div PageSize), (a[2] + d[2]) % PageSize>>

ASub(a, b) == <<a[1] - b[1] + ((a[2] - b[2]) \div PageSize), (a[2] - b[2]) % PageSize>>

ALt(a, b) == a[1] < b[1] \/ (a[1] = b[1] /\ a[2] < b[2])

ALe(a, b) == a = b \/ ALt(a, b)

\* (uintptr_t)p & 0xfff
Low12(a) == a[2]

\* Whether a 64-bit distance is representable as int32_t.
FitsInt32(d) == d[1] >= -(2^19) /\ d[1] <= 2^19 - 1

\* (int32_t)d : the low 32 bits of d, read as a signed value.
ToInt32(d) == LET u == d[1] % (2^20) IN <<IF u >= 2^19 THEN u - 2^20 ELSE u, d[2]>>

\* The four little-endian bytes of the int32_t stored for distance d.
Int32Bytes(d) ==
    LET u == d[1] % (2^20)
    IN  <<d[2] % 256, (d[2] \div 256) + 16 * (u % 16), (u \div 16) % 256, u \div 4096>>

\* The int32_t read from four little-endian bytes, as a distance.
Int32Of(bs) ==
    LET u == (bs[2] \div 16) + 16 * bs[3] + 4096 * bs[4]
    IN  <<IF u >= 2^19 THEN u - 2^20 ELSE u, bs[1] + 256 * (bs[2] % 16)>>

\* The eight little-endian bytes of a pointer.
PtrBytes(a) ==
    <<a[2] % 256, (a[2] \div 256) + 16 * (a[1] % 16), (a[1] \div 16) % 256,
      (a[1] \div 4096) % 256, (a[1] \div (2^20)) % 256, (a[1] \div (2^28)) % 256, 0, 0>>

\* The pointer read from eight little-endian bytes (below 2^43).
PtrOf(bs) ==
    <<(bs[2] \div 16) + 16 * bs[3] + 4096 * bs[4] + (2^20) * bs[5] + (2^28) * (bs[6] % 8),
      bs[1] + 256 * (bs[2] % 16)>>

(***************************************************************************)
(* Byte memory: m[page][offset], defined for the mapped pages only.        *)
(***************************************************************************)
Mapped(m, a) == a[1] \in DOMAIN m

\* Whether the n bytes at a are mapped (n is at most a page, so the first and
\* the last byte decide).
RangeMapped(m, a, n) == n <= 0 \/ (Mapped(m, a) /\ Mapped(m, AAdd(a, n - 1)))

Rd8(m, a) == m[a[1]][a[2]]

\* A little-endian uint16_t.
Rd16(m, a) ==
    IF a[2] + 1 < PageSize THEN m[a[1]][a[2]] + 256 * m[a[1]][a[2] + 1]
    ELSE Rd8(m, a) + 256 * Rd8(m, AAdd(a, 1))

RdBytes(m, a, n) == [i \in 1..n |-> Rd8(m, AAdd(a, i - 1))]

Wr8(m, a, v) == [m EXCEPT ![a[1]][a[2]] = v]

Wr16(m, a, v) == Wr8(Wr8(m, a, v % 256), AAdd(a, 1), (v \div 256) % 256)

RECURSIVE WrBytes(_, _, _)
WrBytes(m, a, bs) ==
    IF bs = <<>> THEN m
    ELSE WrBytes(Wr8(m, a, Head(bs)), AAdd(a, 1), Tail(bs))

ZeroPage == [o \in 0..(PageSize - 1) |-> 0]

(***************************************************************************)
(* Instruction length decoder.  code is the byte stream at 'address',      *)
(* indexed from 0; an index stands for the pointer b.                      *)
(***************************************************************************)
prefixes == {240, 242, 243, 46, 54, 62, 38, 100, 101, 102, 103}
op1modrm == {98, 99, 105, 107, 192, 193, 196, 197, 198, 199, 208, 209, 210, 211, 246, 247, 254, 255}
op1imm8 == {106, 107, 128, 130, 131, 168, 192, 193, 198, 205, 212, 213, 235}
op1imm32 == {104, 105, 129, 169, 199, 232, 233}
op2modrm == {13, 163, 164, 165, 171, 172, 173, 174, 175}

\* _NMD_MEM_R and _NMD_MEM_C of a byte
MEM_R(x) == x \div 16
MEM_C(x) == x % 16

CodeAt(code, i) == IF i \in DOMAIN code THEN code[i] ELSE 0

\* The loop condition of the prefix loop at loop counter i (b = address + i).
PrefixCond(code, x86_64_mode, i) ==
    (i < MaxPrefixes /\ CodeAt(code, i) \in prefixes)
    \/ (IF x86_64_mode THEN MEM_R(CodeAt(code, i)) = 4 ELSE FALSE)

\* The prefix loop: the state after it, from loop counter i on.
RECURSIVE ParsePrefixes(_, _, _, _)
ParsePrefixes(code, x86_64_mode, i, f) ==
    IF i \in DOMAIN code /\ PrefixCond(code, x86_64_mode, i)
    THEN LET x == code[i]
         IN  ParsePrefixes(code, x86_64_mode, i + 1,
                 IF x = 102 THEN [f EXCEPT !.operandPrefix = TRUE]
                 ELSE IF x = 103 THEN [f EXCEPT !.addressPrefix = TRUE]
                 ELSE IF MEM_R(x) = 4 /\ MEM_C(x) >= 8 THEN [f EXCEPT !.rexW = TRUE]
                 ELSE f)
    ELSE [f EXCEPT !.b = i]

\* _nmd_mem_parse_modrm without the test for a SIB byte (lines 714-716).
mem_parse_modrm_NoSIB(code, b0, addressPrefix) ==
    LET b1 == b0 + 1
        modrm == CodeAt(code, b1)
    IN  IF ~addressPrefix \/ (addressPrefix /\ CodeAt(code, b1) >= 64)
        THEN IF modrm >= 64 /\ modrm <= 127 THEN b1 + 1
             ELSE IF (modrm <= 63 /\ modrm % 8 = 5) \/ (modrm >= 128 /\ modrm <= 191)
                  THEN b1 + (IF addressPrefix THEN 2 ELSE 4)
             ELSE b1
        ELSE IF addressPrefix /\ modrm = 38 THEN b1 + 2
        ELSE b1

\* _nmd_mem_parse_modrm: the new value of b, from b at the opcode byte.
mem_parse_modrm(code, b0, addressPrefix) ==
    LET b1 == b0 + 1
        modrm == CodeAt(code, b1)
    IN  IF ~addressPrefix \/ (addressPrefix /\ CodeAt(code, b1) >= 64)
        THEN LET hasSIB == CodeAt(code, b1) < 192 /\ CodeAt(code, b1) % 8 = 4 /\ ~addressPrefix
                 b2 == IF hasSIB THEN b1 + 1 ELSE b1
             IN  IF modrm >= 64 /\ modrm <= 127 THEN b2 + 1
                 ELSE IF (modrm <= 63 /\ modrm % 8 = 5) \/ (modrm >= 128 /\ modrm <= 191)
                      THEN b2 + (IF addressPrefix THEN 2 ELSE 4)
                 ELSE IF hasSIB /\ CodeAt(code, b2) % 8 = 5
                      THEN b2 + (IF (modrm \div 64) % 2 = 1 THEN 1 ELSE 4)
                 ELSE b2
        ELSE IF addressPrefix /\ modrm = 38 THEN b1 + 2
        ELSE b1

\* The immediate size added to 'offset' in the two-byte branch; x is *b,
\* which is still the escape byte there.
Op2Offset(x) ==
    IF MEM_R(x) = 8 THEN 4
    ELSE IF (MEM_R(x) = 7 /\ MEM_C(x) < 4) \/ x = 164 \/ x = 194 \/ (x > 195 /\ x <= 198)
            \/ x = 186 \/ x = 172 THEN 1
    ELSE 0

Op2HasModrm(x) ==
    \/ x \in op2modrm
    \/ (MEM_R(x) # 3 /\ MEM_R(x) > 0 /\ MEM_R(x) < 7)
    \/ x >= 208
    \/ (MEM_R(x) = 7 /\ MEM_C(x) # 7)
    \/ MEM_R(x) = 9
    \/ MEM_R(x) = 11
    \/ (MEM_R(x) = 12 /\ MEM_C(x) < 8)
    \/ (MEM_R(x) = 0 /\ MEM_C(x) < 4)

\* The immediate size added to 'offset' in the one-byte branch; x is *b and
\* nx is *(b + 1).
Op1Offset(x, nx, f) ==
    IF \/ (MEM_R(x) = 14 /\ MEM_C(x) < 8)
       \/ (MEM_R(x) = 11 /\ MEM_C(x) < 8)
       \/ MEM_R(x) = 7
       \/ (MEM_R(x) < 4 /\ (MEM_C(x) = 4 \/ MEM_C(x) = 12))
       \/ (x = 246 /\ (nx \div 16) % 4 = 0)
       \/ x \in op1imm8
    THEN 1
    ELSE IF x = 194 \/ x = 202 THEN 2
    ELSE IF x = 200 THEN 3
    ELSE IF \/ (MEM_R(x) < 4 /\ (MEM_C(x) = 5 \/ MEM_C(x) = 13))
            \/ (MEM_R(x) = 11 /\ MEM_C(x) >= 8)
            \/ (x = 247 /\ (nx \div 16) % 4 = 0)
            \/ x \in op1imm32
         THEN (IF f.rexW THEN 8 ELSE IF f.operandPrefix THEN 2 ELSE 4)
    ELSE IF MEM_R(x) = 10 /\ MEM_C(x) < 4
         THEN (IF f.rexW THEN 8 ELSE IF f.addressPrefix THEN 2 ELSE 4)
    ELSE IF x = 234 \/ x = 154 THEN (IF f.operandPrefix THEN 4 ELSE 6)
    ELSE 0

Op1HasModrm(x) ==
    \/ x \in op1modrm
    \/ (MEM_R(x) < 4 /\ (MEM_C(x) < 4 \/ (MEM_C(x) >= 8 /\ MEM_C(x) < 12)))
    \/ MEM_R(x) = 8
    \/ (MEM_R(x) = 13 /\ MEM_C(x) >= 8)

\* Lines 752-785 with b + offset in place of ++b + offset at line 785.
LdisasmOpcodeNoInc(code, f, x) ==
    (IF (IF x = 15 THEN Op2HasModrm(x) ELSE Op1HasModrm(x))
     THEN mem_parse_modrm(code, f.b, f.addressPrefix)
     ELSE f.b)
    + (IF x = 15 THEN Op2Offset(x) ELSE Op1Offset(x, CodeAt(code, f.b + 1), f))

\* Lines 752-785: the opcode at b = f.b (x is *b there) with what follows it.
LdisasmOpcode(code, f, x) ==
    (IF (IF x = 15 THEN Op2HasModrm(x) ELSE Op1HasModrm(x))
     THEN mem_parse_modrm(code, f.b, f.addressPrefix)
     ELSE f.b)
    + 1 + (IF x = 15 THEN Op2Offset(x) ELSE Op1Offset(x, CodeAt(code, f.b + 1), f))

\* Lines 752-785, f being the state the prefix loop leaves.
LdisasmAfterPrefixes(code, f) == LdisasmOpcode(code, f, CodeAt(code, f.b))

\* _nmd_mem_ldisasm: the length of the instruction at the start of code.
mem_ldisasm(code, x86_64_mode) ==
    LdisasmAfterPrefixes(code,
        ParsePrefixes(code, x86_64_mode, 0,
            [b |-> 0, operandPrefix |-> FALSE, addressPrefix |-> FALSE, rexW |-> FALSE]))

(***************************************************************************)
(* Program state.                                                          *)
(*   mem       the mapped memory (code pages, hook pages, foreign pages)   *)
(*   first     _nmd_first_hook_page                                        *)
(*   vmFree    the pages NtAllocateVirtualMemory can still hand out        *)
(*   prot      the protection of each code page                            *)
(*   original  the caller's variable passed as 'original' to nmd_hook      *)
(*   last      the last call: its arguments, result and what it touched    *)
(*   depth     per target, successful hooks minus successful unhooks       *)
(*   saved     per target, the bytes it held before it was first hooked    *)
(*   prev      the call before the last one                                *)
(*   nops      the number of calls made so far                             *)
(***************************************************************************)
VARIABLES mem, first, vmFree, prot, original, last, prev, depth, saved, nops

vars == <<mem, first, vmFree, prot, original, last, prev, depth, saved, nops>>

RdPtr(m, a) == PtrOf(RdBytes(m, a, 8))

WrPtr(m, a, v) == WrBytes(m, a, PtrBytes(v))

\* NtAllocateVirtualMemory committing a fresh page: it reads as zero.
MapPage(m, p) == (p :> ZeroPage) @@ m

Min(S) == CHOOSE x \in S : \A y \in S : x <= y

(***************************************************************************)
(* _nmd_alloc_page_near.  The probe loop starts at addr + 0x1000 and moves  *)
(* up one page per failed NtAllocateVirtualMemory; probe k asks for the     *)
(* page addr[1] + k.  After a failed probe the loop gives up once           *)
(* target_addr >= addr + 2^31 - 0x1000, that is once k >= 2^19 - 1, so the  *)
(* loop returns the lowest free page among addr[1] + 1 .. addr[1] + 2^19 - 1 *)
(* or 0.  (target_addr >= 2^63 cannot happen below 2^43.)                   *)
(***************************************************************************)
alloc_page_near(addr, free) ==
    LET cand == {p \in free : p >= addr[1] + 1 /\ p <= addr[1] + (2^19 - 1)}
    IN  IF cand = {} THEN NULL ELSE <<Min(cand), 0>>

(***************************************************************************)
(* _nmd_find_free_hook_data.  A walk is [hd, st]: hd the record header the  *)
(* loop is at, st "go" while the loop runs, then "found" (returns hd),      *)
(* "null" (returns 0) or "fault" (a header read from unmapped memory).      *)
(***************************************************************************)
\* A walk advances by at least DataHdrSize bytes per step, so no walk inside
\* the mapped memory of the model takes WalkBound steps.
WalkBound == 4 * PageSize

\* FindStep with a loop condition that passes over a free record of exactly
\* the requested size (size >= hook_data->size instead of size > ...).
FindStepStrict(m, size, w) ==
    LET type == Rd16(m, w.hd)
        hsize == Rd16(m, AAdd(w.hd, 2))
        sizeMapped == RangeMapped(m, AAdd(w.hd, 2), 2)
    IN  IF ~RangeMapped(m, w.hd, 2) THEN [w EXCEPT !.st = "fault"]
        ELSE IF type = TYPE_NONE /\ ~sizeMapped THEN [w EXCEPT !.st = "fault"]
        ELSE IF type = TYPE_NONE /\ size < hsize THEN [w EXCEPT !.st = "found"]
        ELSE IF Low12(w.hd) = 0 THEN [w EXCEPT !.st = "null"]
        ELSE IF ~sizeMapped THEN [w EXCEPT !.st = "fault"]
        ELSE [w EXCEPT !.hd = AAdd(w.hd, DataHdrSize + hsize)]

\* One evaluation of the loop condition at w.hd and, if it holds, of the body.
\* The condition reads type and, only if type is NONE, size; the body reads
\* size unless it returns 0 at a page boundary.
FindStep(m, size, w) ==
    LET type == Rd16(m, w.hd)
        hsize == Rd16(m, AAdd(w.hd, 2))
        sizeMapped == RangeMapped(m, AAdd(w.hd, 2), 2)
    IN  IF ~RangeMapped(m, w.hd, 2) THEN [w EXCEPT !.st = "fault"]
        ELSE IF type = TYPE_NONE /\ ~sizeMapped THEN [w EXCEPT !.st = "fault"]
        ELSE IF type = TYPE_NONE /\ size <= hsize THEN [w EXCEPT !.st = "found"]
        ELSE IF Low12(w.hd) = 0 THEN [w EXCEPT !.st = "null"]
        ELSE IF ~sizeMapped THEN [w EXCEPT !.st = "fault"]
        ELSE [w EXCEPT !.hd = AAdd(w.hd, DataHdrSize + hsize)]

\* The while loop: at most n iterations from w (n iterations are made as two
\* halves, which keeps the evaluation shallow).
RECURSIVE FindLoop(_, _, _, _)
FindLoop(m, size, w, n) ==
    IF w.st # "go" THEN w
    ELSE IF n = 1 THEN FindStep(m, size, w)
    ELSE FindLoop(m, size, FindLoop(m, size, w, n \div 2), n - (n \div 2))

find_free_hook_data(m, hook_page, size) ==
    FindLoop(m, size, [hd |-> AAdd(hook_page, PageHdrSize), st |-> "go"], WalkBound)

(***************************************************************************)
(* _nmd_alloc_hook_data_near.  The result is [st, ptr, mem, first, free]:   *)
(* st "ok" (returns ptr), "null" (returns 0) or "fault" (the process        *)
(* crashes on an access to unmapped memory), with the memory, list head     *)
(* and OS state the call leaves.                                            *)
(***************************************************************************)
\* Lines 854-861 and 896-903: format a fresh page and allocate its first record.
FormatPage(m, page, type, size) ==
    LET hook_data == AAdd(page, PageHdrSize)
        m1 == Wr16(Wr16(m, AAdd(hook_data, 2), size % 65536), hook_data, type)
        next_hook_data == AAdd(hook_data, DataHdrSize + size)
    IN  Wr16(m1, AAdd(next_hook_data, 2),
             (PageSize - (PageHdrSize + DataHdrSize + size)) % 65536)

\* Line 869: whether the hook page is within range of target.
InRange(hook_page, target) ==
    /\ ALt(hook_page, AAddD(target, TwoTo31))
    /\ ALt(IF ALe(target, AAdd(TwoTo31, -PageSize)) THEN <<1, 0>>
           ELSE AAdd(ASub(target, TwoTo31), PageSize),
           hook_page)

\* Lines 874-887: carve the request out of the free record hook_data.
SplitRecord(m, hook_data, type, size) ==
    LET remaining_bytes == (PageSize - Low12(AAdd(hook_data, DataHdrSize + size))) % PageSize
        absorb == remaining_bytes < MinSplit + DataHdrSize
        next_hook_data == AAdd(hook_data, DataHdrSize + size)
        size2 == IF absorb THEN size + remaining_bytes ELSE size
        m1 == IF absorb THEN m
              ELSE Wr16(m, AAdd(next_hook_data, 2), (remaining_bytes - DataHdrSize) % 65536)
    IN  IF ~absorb /\ ~RangeMapped(m, AAdd(next_hook_data, 2), 2)
        THEN [st |-> "fault", ptr |-> NULL, mem |-> m]
        ELSE [st |-> "ok", ptr |-> AAdd(hook_data, DataHdrSize),
              mem |-> Wr16(Wr16(m1, AAdd(hook_data, 2), size2 % 65536), hook_data, type)]

\* Lines 892-904: the end of the page list was reached at hook_page.
GrowList(m, free, hook_page, target, type, size) ==
    LET page == alloc_page_near(target, free)
        m1 == WrPtr(m, hook_page, page)
    IN  IF page # NULL
        THEN [st |-> "null", ptr |-> NULL, mem |-> MapPage(m1, page[1]),
              free |-> free \ {page[1]}]
        ELSE IF Mapped(m1, AAdd(page, PageHdrSize))
             THEN [st |-> "ok", ptr |-> AAdd(page, PageHdrSize + DataHdrSize),
                   mem |-> FormatPage(m1, page, type, size), free |-> free]
             ELSE [st |-> "fault", ptr |-> NULL, mem |-> m1, free |-> free]

\* Lines 865-908: the loop over the existing hook pages.  ParsePagesAt is one
\* iteration, w being the result of the search in hook_page (a search that
\* is not made, hook_page being out of range, counts as one returning 0).
RECURSIVE ParsePages(_, _, _, _, _, _)
ParsePagesAt(m, free, hook_page, target, type, size, w) ==
    IF w.st = "fault" THEN [st |-> "fault", ptr |-> NULL, mem |-> m, free |-> free]
    ELSE IF w.st = "found"
         THEN [free |-> free] @@ SplitRecord(m, w.hd, type, size)
    ELSE IF RdPtr(m, hook_page) = NULL
         THEN GrowList(m, free, hook_page, target, type, size)
    ELSE ParsePages(m, free, RdPtr(m, hook_page), target, type, size)

ParsePages(m, free, hook_page, target, type, size) ==
    ParsePagesAt(m, free, hook_page, target, type, size,
        IF InRange(hook_page, target) THEN find_free_hook_data(m, hook_page, size)
        ELSE [hd |-> NULL, st |-> "null"])

alloc_hook_data_near(m, fst, free, target, type, size) ==
    IF fst = NULL
    THEN LET page == alloc_page_near(target, free)
         IN  IF page = NULL
             THEN [st |-> "null", ptr |-> NULL, mem |-> m, first |-> NULL, free |-> free]
             ELSE [st |-> "ok", ptr |-> AAdd(page, PageHdrSize + DataHdrSize),
                   mem |-> FormatPage(MapPage(m, page[1]), page, type, size),
                   first |-> page, free |-> free \ {page[1]}]
    ELSE [first |-> fst] @@ ParsePages(m, free, fst, target, type, size)

alloc_trampoline(m, fst, free, target, num_original_bytes) ==
    alloc_hook_data_near(m, fst, free, target, TYPE_TRAMPOLINE, num_original_bytes + JmpSize)

alloc_absolute_jump(m, fst, free, target) ==
    alloc_hook_data_near(m, fst, free, target, TYPE_ABSOLUTE_JUMP, AbsJumpSize)

(***************************************************************************)
(* nmd_hook.  s is the program state [mem, first, free, prot, original];    *)
(* the inputs are the arguments and what the OS answers during the call:    *)
(* osOK whether NtAllocateVirtualMemory can succeed, protOK whether the     *)
(* first NtProtectVirtualMemory succeeds.  The result is the state the call *)
(* leaves plus ret ("true", "false", or "crash" when the call faults) and   *)
(* what the call did: n = num_copy_bytes, tramp and absj the records it     *)
(* allocated (NULL if none), protChanged whether it changed the protection. *)
(***************************************************************************)
\* The decoder reads the bytes at address a; InsnWindow bounds how far the
\* model lets it look.
InsnWindow == 32

CodeWindow(m, a) ==
    [i \in 0..(InsnWindow - 1) |->
        IF Mapped(m, AAdd(a, i)) THEN Rd8(m, AAdd(a, i)) ELSE 0]

\* Lines 933-940: the number of bytes to be copied to the trampoline.
RECURSIVE NumCopyBytes(_, _, _)
NumCopyBytes(m, target, num_copy_bytes) ==
    IF num_copy_bytes < JmpSize
    THEN NumCopyBytes(m, target,
             num_copy_bytes + mem_ldisasm(CodeWindow(m, AAdd(target, num_copy_bytes)), TRUE))
    ELSE num_copy_bytes

\* Lines 946-957: the relocated near jump, or the original instructions.
CopiedBytes(m, target, trampoline, num_copy_bytes) ==
    IF Rd8(m, target) = 233
    THEN <<233>> \o Int32Bytes(ToInt32(ASub(
             AAddD(AAdd(target, 5), Int32Of(RdBytes(m, AAdd(target, 1), 4))),
             AAdd(trampoline, 5))))
    ELSE RdBytes(m, target, num_copy_bytes)

\* Lines 960-961: the near jump back to the original function.
JumpBack(target, trampoline, num_copy_bytes) ==
    <<233>> \o Int32Bytes(ToInt32(ASub(AAdd(target, num_copy_bytes),
                                       AAdd(trampoline, num_copy_bytes + 5))))

\* Lines 946-961: the trampoline filled in.
FillTrampoline(m, target, trampoline, num_copy_bytes) ==
    WrBytes(WrBytes(m, trampoline, CopiedBytes(m, target, trampoline, num_copy_bytes)),
            AAdd(trampoline, num_copy_bytes), JumpBack(target, trampoline, num_copy_bytes))

\* Lines 981-983: the absolute jump to detour.
AbsJumpBytes(detour) == <<72, 184>> \o PtrBytes(detour) \o <<255, 224>>

\* Lines 986-987 and 993-994: the near jump written at target, to dest.
PatchBytes(target, dest) == <<233>> \o Int32Bytes(ToInt32(ASub(dest, AAdd(target, 5))))

\* The writes of a successful nmd_hook after the allocations, in the order
\* of lines 946-995, as each [at, bytes]: the copied instructions, the jump
\* back, the absolute jump (far case, absj # NULL) and the patch at target.
\* m is the memory before the call.
HookWritesPatchFirst(m, target, detour, n, tramp, absj) ==
    <<[at |-> target, bytes |-> PatchBytes(target, IF absj # NULL THEN absj ELSE detour)],
      [at |-> tramp, bytes |-> CopiedBytes(m, target, tramp, n)],
      [at |-> AAdd(tramp, n), bytes |-> JumpBack(target, tramp, n)]>>
    \o (IF absj # NULL THEN <<[at |-> absj, bytes |-> AbsJumpBytes(detour)]>> ELSE <<>>)

HookWrites(m, target, detour, n, tramp, absj) ==
    <<[at |-> tramp, bytes |-> CopiedBytes(m, target, tramp, n)],
      [at |-> AAdd(tramp, n), bytes |-> JumpBack(target, tramp, n)]>>
    \o (IF absj # NULL THEN <<[at |-> absj, bytes |-> AbsJumpBytes(detour)]>> ELSE <<>>)
    \o <<[at |-> target, bytes |-> PatchBytes(target, IF absj # NULL THEN absj ELSE detour)]>>

HookResult(s, ret, m, fst, free, pr, orig, n, tramp, absj, changed) ==
    [ret |-> ret, mem |-> m, first |-> fst, free |-> free, prot |-> pr, original |-> orig,
     n |-> n, tramp |-> tramp, absj |-> absj, protChanged |-> changed]

\* Line 969: the protection after the successful change.
ProtChanged(s, target) == [s.prot EXCEPT ![target[1]] = PAGE_EXECUTE_READWRITE]

\* Line 999: the protection after old_protection was put back.
ProtRestored(s, target) == [ProtChanged(s, target) EXCEPT ![target[1]] = s.prot[target[1]]]

\* The pages the OS can still hand out once the memory is m.
FreeAfter(s, m) == s.free \ (DOMAIN m)

\* Lines 977-1002: a is the result of _nmd_alloc_trampoline, a2 the result of
\* _nmd_alloc_absolute_jump.
HookFar(s, target, detour, n, a, orig, a2) ==
    IF a2.st = "fault"
    THEN HookResult(s, "crash", a2.mem, a2.first, FreeAfter(s, a2.mem),
             ProtChanged(s, target), orig, n, a.ptr, NULL, TRUE)
    ELSE IF a2.st = "null"
    THEN HookResult(s, "false", a2.mem, a2.first, FreeAfter(s, a2.mem),
             ProtChanged(s, target), orig, n, a.ptr, NULL, TRUE)
    ELSE HookResult(s, "true",
             WrBytes(WrBytes(a2.mem, a2.ptr, AbsJumpBytes(detour)),
                     target, PatchBytes(target, a2.ptr)),
             a2.first, FreeAfter(s, a2.mem), ProtRestored(s, target),
             orig, n, a.ptr, a2.ptr, TRUE)

\* Lines 972-1002: from the successful protection change on.
HookPatch(s, target, detour, osOK, n, a, orig) ==
    IF ~FitsInt32(ASub(detour, AAdd(target, 5)))
    THEN HookFar(s, target, detour, n, a, orig,
             alloc_absolute_jump(FillTrampoline(a.mem, target, a.ptr, n), a.first,
                 IF osOK THEN FreeAfter(s, a.mem) ELSE {}, target))
    ELSE HookResult(s, "true",
             WrBytes(FillTrampoline(a.mem, target, a.ptr, n), target,
                     PatchBytes(target, detour)),
             a.first, FreeAfter(s, a.mem), ProtRestored(s, target),
             orig, n, a.ptr, NULL, TRUE)

\* Lines 943-1002: a is the result of _nmd_alloc_trampoline.
HookFill(s, target, detour, hasOriginal, osOK, protOK, n, a) ==
    IF a.st = "fault"
    THEN HookResult(s, "crash", a.mem, a.first, FreeAfter(s, a.mem), s.prot, s.original,
             n, NULL, NULL, FALSE)
    ELSE IF a.st = "null"
    THEN HookResult(s, "false", a.mem, a.first, FreeAfter(s, a.mem), s.prot, s.original,
             n, NULL, NULL, FALSE)
    ELSE IF ~protOK
    THEN HookResult(s, "false", FillTrampoline(a.mem, target, a.ptr, n), a.first,
             FreeAfter(s, a.mem), s.prot, IF hasOriginal THEN a.ptr ELSE s.original,
             n, a.ptr, NULL, FALSE)
    ELSE HookPatch(s, target, detour, osOK, n, a,
             IF hasOriginal THEN a.ptr ELSE s.original)

\* Lines 942-1002: n is num_copy_bytes.
HookAlloc(s, target, detour, hasOriginal, osOK, protOK, n) ==
    HookFill(s, target, detour, hasOriginal, osOK, protOK, n,
        alloc_trampoline(s.mem, s.first, IF osOK THEN s.free ELSE {}, target, n))

nmd_hook(s, target, detour, hasOriginal, osOK, protOK) ==
    HookAlloc(s, target, detour, hasOriginal, osOK, protOK, NumCopyBytes(s.mem, target, 0))

(***************************************************************************)
(* nmd_unhook.  A walk of _nmd_unhook_page is [hd, st]: st "go" while the   *)
(* do-while loop runs, then "hit" (hd is the trampoline record of target),  *)
(* "done" (the loop ended without a match) or "fault".                      *)
(***************************************************************************)
\* Lines 1012-1014: whether the record at hd jumps back to target.
IsRecordOf(m, hd, target) ==
    LET size == Rd16(m, AAdd(hd, 2))
        trampoline == AAdd(hd, DataHdrSize + size - 4)
        num_copy_bytes == size - JmpSize
    IN  AAddD(AAdd(trampoline, 4), Int32Of(RdBytes(m, trampoline, 4)))
            = AAdd(target, num_copy_bytes)

UnhookStep(m, target, w) ==
    IF ~RangeMapped(m, w.hd, DataHdrSize) THEN [w EXCEPT !.st = "fault"]
    ELSE LET size == Rd16(m, AAdd(w.hd, 2))
             next == AAdd(w.hd, DataHdrSize + size)
         IN  IF Rd16(m, w.hd) = TYPE_TRAMPOLINE
                /\ ~RangeMapped(m, AAdd(w.hd, DataHdrSize + size - 4), 4)
             THEN [w EXCEPT !.st = "fault"]
             ELSE IF Rd16(m, w.hd) = TYPE_TRAMPOLINE /\ IsRecordOf(m, w.hd, target)
             THEN [w EXCEPT !.st = "hit"]
             ELSE IF Low12(next) # 0 THEN [w EXCEPT !.hd = next]
             ELSE [w EXCEPT !.st = "done"]

\* The do-while loop: at most n iterations from w.
RECURSIVE UnhookLoop(_, _, _, _)
UnhookLoop(m, target, w, n) ==
    IF w.st # "go" THEN w
    ELSE IF n = 1 THEN UnhookStep(m, target, w)
    ELSE UnhookLoop(m, target, UnhookLoop(m, target, w, n \div 2), n - (n \div 2))

\* FreeRecord without lines 1038-1041: the record is marked free, never merged.
FreeRecordNoMerge(m, hd) == Wr16(m, hd, TYPE_NONE)

\* Lines 1036-1041: mark the record free and try to merge it with the next.
FreeRecord(m, hd) ==
    LET m1 == Wr16(m, hd, TYPE_NONE)
        size == Rd16(m1, AAdd(hd, 2))
        next_hook_data == AAdd(hd, DataHdrSize + size)
    IN  IF Low12(next_hook_data) # 0 /\ Rd16(m1, next_hook_data) = TYPE_NONE
        THEN Wr16(m1, AAdd(hd, 2),
                  (size + DataHdrSize + Rd16(m1, AAdd(next_hook_data, 2))) % 65536)
        ELSE m1

\* Whether FreeRecord reads the next header from unmapped memory.
FreeFaults(m, hd) ==
    LET next_hook_data == AAdd(hd, DataHdrSize + Rd16(m, AAdd(hd, 2)))
    IN  /\ Low12(next_hook_data) # 0
        /\ \/ ~RangeMapped(m, next_hook_data, 2)
           \/ (Rd16(m, next_hook_data) = TYPE_NONE
               /\ ~RangeMapped(m, AAdd(next_hook_data, 2), 2))

\* Lines 1036-1043, m being the memory after the bytes were restored.
UnhookFree(m, hd) ==
    IF FreeFaults(m, hd) THEN [st |-> "fault", mem |-> m, hd |-> hd]
    ELSE [st |-> "true", mem |-> FreeRecord(m, hd), hd |-> hd]

\* Lines 1025-1043: the record at hd matched and the protection was changed.
UnhookRestore(m, target, hd, num_copy_bytes) ==
    IF num_copy_bytes < 0 \/ ~RangeMapped(m, target, num_copy_bytes)
       \/ ~RangeMapped(m, AAdd(hd, DataHdrSize), num_copy_bytes)
    THEN [st |-> "fault", mem |-> m, hd |-> hd]
    ELSE UnhookFree(WrBytes(m, target, RdBytes(m, AAdd(hd, DataHdrSize), num_copy_bytes)), hd)

\* Lines 1015-1050 without the return of line 1023.
UnhookAtIgnoreDenied(m, target, protOK, w) ==
    IF w.st = "fault" THEN [st |-> "fault", mem |-> m, hd |-> NULL]
    ELSE IF w.st = "done" THEN [st |-> "false", mem |-> m, hd |-> NULL]
    ELSE UnhookRestore(m, target, w.hd, Rd16(m, AAdd(w.hd, 2)) - JmpSize)

\* Lines 1015-1050: w is where the do-while loop ended.
UnhookAt(m, target, protOK, w) ==
    IF w.st = "fault" THEN [st |-> "fault", mem |-> m, hd |-> NULL]
    ELSE IF w.st = "done" THEN [st |-> "false", mem |-> m, hd |-> NULL]
    ELSE IF ~protOK THEN [st |-> "false", mem |-> m, hd |-> w.hd]
    ELSE UnhookRestore(m, target, w.hd, Rd16(m, AAdd(w.hd, 2)) - JmpSize)

\* _nmd_unhook_page: [st, mem, hd], st "true", "false" or "fault"; hd is the
\* record the call matched (NULL if none).
unhook_page(m, target, hook_page, protOK) ==
    UnhookAt(m, target, protOK,
        UnhookLoop(m, target, [hd |-> AAdd(hook_page, PageHdrSize), st |-> "go"], WalkBound))

\* Lines 1063-1069: the loop over the hook pages.  UnhookNext is one
\* iteration, r being the result of _nmd_unhook_page for hook_page.
RECURSIVE UnhookPages(_, _, _, _)
UnhookNext(m, target, hook_page, protOK, r) ==
    IF r.st # "false" THEN r
    ELSE IF RdPtr(m, hook_page) = NULL THEN [r EXCEPT !.hd = NULL]
    ELSE UnhookPages(m, target, RdPtr(m, hook_page), protOK)

UnhookPages(m, target, hook_page, protOK) ==
    UnhookNext(m, target, hook_page, protOK, unhook_page(m, target, hook_page, protOK))

UnhookReturn(r) ==
    [ret |-> IF r.st = "fault" THEN "crash" ELSE r.st, mem |-> r.mem, hd |-> r.hd]

\* nmd_unhook: [ret, mem, hd]; ret "true", "false" or "crash".
nmd_unhook(s, target, protOK) ==
    IF s.first = NULL THEN [ret |-> "false", mem |-> s.mem, hd |-> NULL]
    ELSE UnhookReturn(UnhookPages(s.mem, target, s.first, protOK))

(***************************************************************************)
(* The data structure the allocator keeps, read back from memory: the page  *)
(* list (_nmd_hook_page.next from _nmd_first_hook_page) and the records of  *)
(* a page (_nmd_hook_data headers, each followed by 'size' payload bytes).  *)
(***************************************************************************)
PageOf(a) == <<a[1], 0>>

\* The hook pages in list order.
RECURSIVE PagesFrom(_, _)
PagesFrom(m, hook_page) ==
    IF hook_page = NULL \/ ~RangeMapped(m, hook_page, PageHdrSize) THEN <<>>
    ELSE <<hook_page>> \o PagesFrom(m, RdPtr(m, hook_page))

HookPages == PagesFrom(mem, first)

RecType(m, hd) == Rd16(m, hd)

RecSize(m, hd) == Rd16(m, AAdd(hd, 2))

\* The records of the page with bytes pg, followed header by header from the
\* first one: [o, st, recs] with recs the header offsets seen so far, o the
\* offset the next header is expected at, and st "go", then "exact" (the
\* last record ends at the end of the page) or "past" (it ends beyond it).
RecStep(pg, w) ==
    LET end == w.o + DataHdrSize + pg[w.o + 2] + 256 * pg[w.o + 3]
    IN  IF w.o + DataHdrSize > PageSize THEN [w EXCEPT !.st = "past"]
        ELSE IF end = PageSize THEN [o |-> end, st |-> "exact", recs |-> Append(w.recs, w.o)]
        ELSE IF end > PageSize THEN [o |-> end, st |-> "past", recs |-> Append(w.recs, w.o)]
        ELSE [o |-> end, st |-> "go", recs |-> Append(w.recs, w.o)]

RECURSIVE RecLoop(_, _, _)
RecLoop(pg, w, n) ==
    IF w.st # "go" THEN w
    ELSE IF n = 1 THEN RecStep(pg, w)
    ELSE RecLoop(pg, RecLoop(pg, w, n \div 2), n - (n \div 2))

RecWalk(m, hook_page) ==
    RecLoop(m[hook_page[1]], [o |-> PageHdrSize, st |-> "go", recs |-> <<>>],
            PageSize \div DataHdrSize)

\* The page is exactly tiled by its records.
Tiled(m, hook_page) == RecWalk(m, hook_page).st = "exact"

IsFree(m, hd) == RecType(m, hd) = TYPE_NONE

\* The headers of the Free records of a page that can hold size bytes, in
\* address order.
FreeFits(m, hook_page, size) ==
    SelectSeq([i \in DOMAIN RecWalk(m, hook_page).recs |->
                  <<hook_page[1], RecWalk(m, hook_page).recs[i]>>],
              LAMBDA hd : IsFree(m, hd) /\ RecSize(m, hd) >= size)

\* The first Free record that can hold size bytes, by page in list order and
\* by address in the page (NULL if there is none).
RECURSIVE FirstFit(_, _, _)
FirstFit(m, pages, size) ==
    IF pages = <<>> THEN NULL
    ELSE IF FreeFits(m, Head(pages), size) # <<>> THEN Head(FreeFits(m, Head(pages), size))
    ELSE FirstFit(m, Tail(pages), size)

(***************************************************************************)
(* The environment: two code pages 4 GB apart holding the target functions, *)
(* the detours, the pages the OS can hand out and the foreign pages that    *)
(* are mapped (zero-filled) next to them.                                   *)
(***************************************************************************)
CodePage == 5 * (2^18) + 1
FarPage == CodePage + 2^20

T1 == <<CodePage, 16>>
T2 == <<CodePage, 32>>
T3 == <<CodePage, 48>>
TF == <<FarPage, 16>>
Targets == {T1, T2, T3, TF}

DNear == <<CodePage, 2048>>
DFar == <<CodePage + 2^21, 64>>
Detours == {DNear, DFar}

\* T1: mov [rsp+8],rbx / push rdi / sub rsp,20h     T2: jmp +100h
\* T3: push rbp / mov rbp,rsp / sub rsp,20h         TF: push rbx / sub rsp,20h
CodeBytes(t) ==
    IF t = T1 THEN <<72, 137, 92, 36, 8, 87, 72, 131, 236, 32, 195>>
    ELSE IF t = T2 THEN <<233, 0, 1, 0, 0, 204, 204, 204>>
    ELSE IF t = T3 THEN <<85, 72, 137, 229, 72, 131, 236, 32, 195>>
    ELSE <<64, 83, 72, 131, 236, 32, 195>>

InitCode ==
    LET m0 == [p \in {CodePage, FarPage} |-> ZeroPage]
    IN  WrBytes(WrBytes(WrBytes(WrBytes(m0, T1, CodeBytes(T1)), T2, CodeBytes(T2)),
                        T3, CodeBytes(T3)), TF, CodeBytes(TF))

\* The layouts of the address space around the code pages: the pages the OS
\* can hand out, and the foreign pages mapped there.
Layouts ==
    { [free |-> {CodePage + 2, CodePage + 3, FarPage + 1, FarPage + 2}, foreign |-> {}],
      [free |-> {CodePage + 2, CodePage + 5, FarPage + 1},
       foreign |-> {CodePage + 3, CodePage + 4, FarPage + 2, FarPage + 3}] }

NoCall ==
    [op |-> "none", target |-> NULL, detour |-> NULL, ret |-> "none", n |-> 0,
     tramp |-> NULL, absj |-> NULL, hd |-> NULL, protChanged |-> FALSE,
     osOK |-> TRUE, protOK |-> TRUE, hasOriginal |-> FALSE]

Init ==
    /\ \E lay \in Layouts :
          /\ mem = [p \in lay.foreign |-> ZeroPage] @@ InitCode
          /\ vmFree = lay.free
    /\ first = NULL
    /\ prot = [p \in {CodePage, FarPage} |-> PAGE_EXECUTE_READ]
    /\ original = NULL
    /\ last = NoCall
    /\ prev = NoCall
    /\ depth = [t \in Targets |-> 0]
    /\ saved = [t \in Targets |-> <<>>]
    /\ nops = 0

State == [mem |-> mem, first |-> first, free |-> vmFree, prot |-> prot, original |-> original]

Alive == last.ret # "crash"

(***************************************************************************)
(* The calls.                                                              *)
(***************************************************************************)
\* The state after a call of nmd_hook with result r.
HookDone(target, detour, hasOriginal, osOK, protOK, r) ==
    /\ mem' = r.mem
    /\ first' = r.first
    /\ vmFree' = r.free
    /\ prot' = r.prot
    /\ original' = r.original
    /\ last' = [op |-> "hook", target |-> target, detour |-> detour, ret |-> r.ret,
                n |-> r.n, tramp |-> r.tramp, absj |-> r.absj, hd |-> NULL,
                protChanged |-> r.protChanged, osOK |-> osOK, protOK |-> protOK,
                hasOriginal |-> hasOriginal]
    /\ prev' = last
    /\ depth' = IF r.ret = "true" THEN [depth EXCEPT ![target] = @ + 1] ELSE depth
    /\ saved' = IF r.ret = "true" /\ depth[target] = 0
                THEN [saved EXCEPT ![target] = RdBytes(mem, target, r.n)]
                ELSE saved
    /\ nops' = nops + 1

Hook(target, detour, hasOriginal, osOK, protOK) ==
    /\ Alive
    /\ HookDone(target, detour, hasOriginal, osOK, protOK,
                nmd_hook(State, target, detour, hasOriginal, osOK, protOK))

\* The state after a call of nmd_unhook with result r.
UnhookDone(target, protOK, r) ==
    /\ mem' = r.mem
    /\ last' = [op |-> "unhook", target |-> target, detour |-> NULL, ret |-> r.ret,
                n |-> IF r.hd = NULL THEN 0 ELSE Rd16(mem, AAdd(r.hd, 2)) - JmpSize,
                tramp |-> NULL, absj |-> NULL, hd |-> r.hd,
                protChanged |-> FALSE, osOK |-> TRUE, protOK |-> protOK,
                hasOriginal |-> FALSE]
    /\ prev' = last
    /\ depth' = IF r.ret = "true" THEN [depth EXCEPT ![target] = @ - 1] ELSE depth
    /\ nops' = nops + 1
    /\ UNCHANGED <<first, vmFree, prot, original, saved>>

Unhook(target, protOK) ==
    /\ Alive
    /\ UnhookDone(target, protOK, nmd_unhook(State, target, protOK))

\* The number of calls in a run.
MaxOps == 2

Next ==
    \/ \E t \in Targets, d \in Detours, h \in BOOLEAN, o \in BOOLEAN, p \in BOOLEAN :
          nops < MaxOps /\ Hook(t, d, h, o, p)
    \/ \E t \in Targets, p \in BOOLEAN :
          nops < MaxOps /\ Unhook(t, p)

Spec == Init /\ [][Next]_vars

(***************************************************************************)
(* Runs in which the OS refuses nothing.  SpecSeq: sequences of hooks (with *)
(* a detour in reach, so that each nmd_hook makes one allocation) and       *)
(* unhooks of two functions of one code page.  SpecFar: shorter sequences   *)
(* in which the detour may be out of reach of a near jump.                  *)
(***************************************************************************)
SeqTargets == {T1, T3}

MaxSeq == 6

NextSeq ==
    \/ \E t \in SeqTargets :
          nops < MaxSeq /\ Hook(t, DNear, TRUE, TRUE, TRUE)
    \/ \E t \in SeqTargets :
          nops < MaxSeq /\ Unhook(t, TRUE)

SpecSeq == Init /\ [][NextSeq]_vars

MaxFar == 3

NextFar ==
    \/ \E t \in SeqTargets, d \in Detours :
          nops < MaxFar /\ Hook(t, d, TRUE, TRUE, TRUE)
    \/ \E t \in SeqTargets :
          nops < MaxFar /\ Unhook(t, TRUE)

SpecFar == Init /\ [][NextFar]_vars

(***************************************************************************)
(* A second environment: besides the code pages of Init, a code page        *)
(* LowPage that lies 2^31 bytes below the page the OS hands out first near  *)
(* CodePage.  It holds TL, a copy of T1, and TW, whose first instruction    *)
(* is mov rax,1 with REX.W (48 C7 C0 imm32, 7 bytes) followed by            *)
(* mov [rsp+8],rbx (5 bytes) and ret.                                       *)
(***************************************************************************)
LowPage == CodePage + 2 - 2^19

TL == <<LowPage, 16>>
TW == <<LowPage, 64>>
LowTargets == {T1, TL, TW}

LowCodeBytes(t) ==
    IF t = TW THEN <<72, 199, 192, 1, 0, 0, 0, 72, 137, 92, 36, 8, 195>>
    ELSE CodeBytes(T1)

\* The lengths of the instructions at each target, from the instruction set
\* reference (T2: jmp rel32 and three int3).
InsnLengths(t) ==
    IF t = T1 \/ t = TL THEN <<5, 1, 4, 1>>
    ELSE IF t = T2 THEN <<5, 1, 1, 1>>
    ELSE IF t = T3 THEN <<1, 3, 4, 1>>
    ELSE IF t = TW THEN <<7, 5, 1>>
    ELSE <<2, 4, 1>>

RECURSIVE SumTo(_, _)
SumTo(lens, k) == IF k = 0 THEN 0 ELSE lens[k] + SumTo(lens, k - 1)

\* The offsets from t at which an instruction of the function at t starts.
Boundaries(t) == {SumTo(InsnLengths(t), k) : k \in 0..Len(InsnLengths(t))}

InitLow ==
    /\ mem = WrBytes(WrBytes((LowPage :> ZeroPage) @@ InitCode, TL, LowCodeBytes(TL)),
                     TW, LowCodeBytes(TW))
    /\ vmFree = {CodePage + 2, LowPage + 2}
    /\ first = NULL
    /\ prot = [p \in {CodePage, FarPage, LowPage} |-> PAGE_EXECUTE_READ]
    /\ original = NULL
    /\ last = NoCall
    /\ prev = NoCall
    /\ depth = [t \in Targets \cup LowTargets |-> 0]
    /\ saved = [t \in Targets \cup LowTargets |-> <<>>]
    /\ nops = 0

MaxLow == 3

NextLow ==
    \/ \E t \in LowTargets, d \in Detours, h \in BOOLEAN :
          nops < MaxLow /\ Hook(t, d, h, TRUE, TRUE)
    \/ \E t \in LowTargets :
          nops < MaxLow /\ Unhook(t, TRUE)

SpecLow == InitLow /\ [][NextLow]_vars

\* |a - t| <= 2^31 - PageSize
WithinReach(a, t) ==
    /\ ASub(a, t)[1] >= -(2^19 - 1)
    /\ \/ ASub(a, t)[1] < 2^19 - 1
       \/ (ASub(a, t)[1] = 2^19 - 1 /\ ASub(a, t)[2] = 0)

(***************************************************************************)
(* The length disassembler on its own: _nmd_mem_ldisasm applied once to an  *)
(* instruction drawn from the sets below, in 32-bit or in 64-bit mode.      *)
(* The tables give each instruction with its length in the instruction set  *)
(* reference: <<bytes, length in 32-bit mode, length in 64-bit mode>>, 0    *)
(* where the form does not exist in that mode.                              *)
(***************************************************************************)
OneByteForms ==
    { <<<<144>>, 1, 1>>,                          \* nop
      <<<<195>>, 1, 1>>,                          \* ret
      <<<<80>>, 1, 1>>,                           \* push eax
      <<<<64>>, 1, 0>>,                           \* inc eax (a REX prefix in 64-bit mode)
      <<<<164>>, 1, 1>>,                          \* movsb
      <<<<176, 1>>, 2, 2>>,                       \* mov al, 1
      <<<<184, 1, 0, 0, 0>>, 5, 5>>,              \* mov eax, 1
      <<<<4, 1>>, 2, 2>>,                         \* add al, 1
      <<<<5, 1, 0, 0, 0>>, 5, 5>>,                \* add eax, 1
      <<<<60, 1>>, 2, 2>>,                        \* cmp al, 1
      <<<<61, 1, 0, 0, 0>>, 5, 5>>,               \* cmp eax, 1
      <<<<104, 1, 0, 0, 0>>, 5, 5>>,              \* push 1
      <<<<106, 1>>, 2, 2>>,                       \* push 1 (imm8)
      <<<<232, 0, 1, 0, 0>>, 5, 5>>,              \* call rel32
      <<<<233, 0, 1, 0, 0>>, 5, 5>>,              \* jmp rel32
      <<<<235, 2>>, 2, 2>>,                       \* jmp rel8
      <<<<116, 2>>, 2, 2>>,                       \* je rel8
      <<<<194, 8, 0>>, 3, 3>>,                    \* ret 8
      <<<<200, 8, 0, 0>>, 4, 4>>,                 \* enter 8, 0
      <<<<205, 3>>, 2, 2>>,                       \* int 3
      <<<<228, 1>>, 2, 2>>,                       \* in al, 1
      <<<<137, 200>>, 2, 2>>,                     \* mov eax, ecx
      <<<<1, 216>>, 2, 2>>,                       \* add eax, ebx
      <<<<139, 69, 8>>, 3, 3>>,                   \* mov eax, [ebp+8]
      <<<<139, 132, 36, 0, 1, 0, 0>>, 7, 7>>,     \* mov eax, [esp+100h]
      <<<<139, 5, 0, 1, 0, 0>>, 6, 6>>,           \* mov eax, [disp32]
      <<<<141, 4, 133, 0, 0, 0, 0>>, 7, 7>>,      \* lea eax, [eax*4+disp32]
      <<<<129, 192, 1, 0, 0, 0>>, 6, 6>>,         \* add eax, 1 (imm32)
      <<<<131, 192, 1>>, 3, 3>>,                  \* add eax, 1 (imm8)
      <<<<128, 192, 1>>, 3, 3>>,                  \* add al, 1
      <<<<199, 0, 1, 0, 0, 0>>, 6, 6>>,           \* mov dword [eax], 1
      <<<<198, 0, 1>>, 3, 3>>,                    \* mov byte [eax], 1
      <<<<105, 192, 1, 0, 0, 0>>, 6, 6>>,         \* imul eax, eax, 1 (imm32)
      <<<<107, 192, 1>>, 3, 3>>,                  \* imul eax, eax, 1 (imm8)
      <<<<246, 192, 1>>, 3, 3>>,                  \* test al, 1
      <<<<246, 208>>, 2, 2>>,                     \* not al
      <<<<247, 192, 1, 0, 0, 0>>, 6, 6>>,         \* test eax, 1
      <<<<247, 216>>, 2, 2>>,                     \* neg eax
      <<<<168, 1>>, 2, 2>>,                       \* test al, 1 (short form)
      <<<<169, 1, 0, 0, 0>>, 5, 5>>,              \* test eax, 1 (short form)
      <<<<255, 208>>, 2, 2>>,                     \* call eax
      <<<<255, 21, 0, 1, 0, 0>>, 6, 6>>,          \* call [disp32]
      <<<<193, 224, 4>>, 3, 3>>,                  \* shl eax, 4
      <<<<209, 224>>, 2, 2>>,                     \* shl eax, 1
      <<<<216, 192>>, 2, 2>>,                     \* fadd st, st(0)
      <<<<217, 69, 8>>, 3, 3>>,                   \* fld dword [ebp+8]
      <<<<154, 0, 0, 0, 0, 8, 0>>, 7, 0>>,        \* call far ptr16:32
      <<<<234, 0, 0, 0, 0, 8, 0>>, 7, 0>>,        \* jmp far ptr16:32
      <<<<160, 0, 1, 0, 0, 0, 0, 0, 0>>, 5, 9>>,  \* mov al, [moffs]
      <<<<161, 0, 1, 0, 0, 0, 0, 0, 0>>, 5, 9>>,  \* mov eax, [moffs]
      <<<<162, 0, 1, 0, 0, 0, 0, 0, 0>>, 5, 9>>,  \* mov [moffs], al
      <<<<163, 0, 1, 0, 0, 0, 0, 0, 0>>, 5, 9>> } \* mov [moffs], eax

TwoByteForms ==
    { <<<<15, 132, 0, 1, 0, 0>>, 6, 6>>,          \* je rel32
      <<<<15, 133, 0, 1, 0, 0>>, 6, 6>>,          \* jne rel32
      <<<<15, 182, 192>>, 3, 3>>,                 \* movzx eax, al
      <<<<15, 183, 69, 8>>, 4, 4>>,               \* movzx eax, word [ebp+8]
      <<<<15, 175, 193>>, 3, 3>>,                 \* imul eax, ecx
      <<<<15, 162>>, 2, 2>>,                      \* cpuid
      <<<<15, 49>>, 2, 2>>,                       \* rdtsc
      <<<<15, 11>>, 2, 2>>,                       \* ud2
      <<<<15, 200>>, 2, 2>>,                      \* bswap eax
      <<<<15, 31, 0>>, 3, 3>>,                    \* nop dword [eax]
      <<<<15, 31, 68, 0, 0>>, 5, 5>>,             \* nop dword [eax+eax+0]
      <<<<15, 148, 192>>, 3, 3>>,                 \* sete al
      <<<<15, 186, 224, 4>>, 4, 4>>,              \* bt eax, 4
      <<<<15, 164, 200, 4>>, 4, 4>>,              \* shld eax, ecx, 4
      <<<<15, 16, 193>>, 3, 3>>,                  \* movups xmm0, xmm1
      <<<<15, 5>>, 0, 2>> }                       \* syscall

RexWForms ==
    { <<<<72, 129, 192, 1, 0, 0, 0>>, 0, 7>>,     \* add rax, 1 (imm32)
      <<<<72, 199, 192, 1, 0, 0, 0>>, 0, 7>>,     \* mov rax, 1 (imm32)
      <<<<72, 5, 1, 0, 0, 0>>, 0, 6>>,            \* add rax, 1 (short form)
      <<<<72, 105, 192, 1, 0, 0, 0>>, 0, 7>>,     \* imul rax, rax, 1 (imm32)
      <<<<72, 61, 1, 0, 0, 0>>, 0, 6>>,           \* cmp rax, 1 (short form)
      <<<<72, 169, 1, 0, 0, 0>>, 0, 6>>,          \* test rax, 1 (short form)
      <<<<72, 247, 192, 1, 0, 0, 0>>, 0, 7>>,     \* test rax, 1
      <<<<72, 184, 1, 0, 0, 0, 0, 0, 0, 0>>, 0, 10>>,  \* mov rax, imm64
      <<<<72, 191, 1, 0, 0, 0, 0, 0, 0, 0>>, 0, 10>>,  \* mov rdi, imm64
      <<<<73, 186, 1, 0, 0, 0, 0, 0, 0, 0>>, 0, 10>>,  \* mov r10, imm64
      <<<<72, 137, 200>>, 0, 3>>,                 \* mov rax, rcx
      <<<<72, 131, 236, 32>>, 0, 4>> }            \* sub rsp, 20h

Forms == OneByteForms \cup TwoByteForms \cup RexWForms

\* mov r/m32, r32 with every ModR/M byte and every byte after it.
ModrmInputs == {<<137, m, s>> : m \in 0..255, s \in 0..255}

\* Every first byte, with some second bytes.
SecondBytes == {0, 5, 15, 36, 72, 102, 192, 255}
ByteInputs == {<<a, b>> : a \in 0..255, b \in SecondBytes}

\* nop after k copies of one prefix byte: 66, 48 (REX.W) or 40 (REX).
PrefixRuns == {1, 13, 14, 15, 20}
PrefixInputs ==
    {[i \in 1..(k + 1) |-> IF i <= k THEN p ELSE 144] : p \in {102, 72, 64}, k \in PrefixRuns}

DecInputs == {e[1] : e \in Forms} \cup ModrmInputs \cup ByteInputs \cup PrefixInputs

\* The bytes bs as memory read from address on.
CodeOf(bs) == [i \in 0..(Len(bs) - 1) |-> bs[i + 1]]

\* The length the reference gives the instruction bs in the mode, 0 if it
\* is not one of Forms in that mode.
RefLength(bs, x86_64_mode) ==
    IF \E e \in Forms : e[1] = bs
    THEN (CHOOSE e \in Forms : e[1] = bs)[IF x86_64_mode THEN 3 ELSE 2]
    ELSE 0

InitDec ==
    /\ mem = [p \in {} |-> ZeroPage]
    /\ vmFree = {}
    /\ first = NULL
    /\ prot = [p \in {} |-> PAGE_EXECUTE_READ]
    /\ original = NULL
    /\ last = NoCall
    /\ prev = NoCall
    /\ depth = [t \in Targets |-> 0]
    /\ saved = [t \in Targets |-> <<>>]
    /\ nops = 0

\* A call of _nmd_mem_ldisasm(address, x86_64_mode) with bs at address.
Ldisasm(bs, x86_64_mode) ==
    /\ last' = [op |-> "ldisasm", code |-> bs, x86_64_mode |-> x86_64_mode,
                ret |-> mem_ldisasm(CodeOf(bs), x86_64_mode)]
    /\ prev' = last
    /\ nops' = nops + 1
    /\ UNCHANGED <<mem, first, vmFree, prot, original, depth, saved>>

\* One call in a run.
NextDec ==
    /\ nops = 0
    /\ \E bs \in DecInputs, x86_64_mode \in BOOLEAN : Ldisasm(bs, x86_64_mode)

SpecDec == InitDec /\ [][NextDec]_vars

(***************************************************************************)
(* A third environment: the function at TJ is a single jmp rel32 (a thunk), *)
(* its displacement drawn from JmpDisps: a short forward jump, a short      *)
(* backward jump, and the two ends of the rel32 range.                      *)
(***************************************************************************)
TJ == <<CodePage, 80>>
JmpTargets == {T1, TJ}

JmpDisps == {<<0, 256>>, <<-1, 4000>>, <<-(2^19), 16>>, <<2^19 - 1, 4000>>}

JmpCodeBytes(disp) == <<233>> \o Int32Bytes(disp) \o <<204, 204, 204>>

InitJmp ==
    /\ \E disp \in JmpDisps : mem = WrBytes(InitCode, TJ, JmpCodeBytes(disp))
    /\ vmFree = {CodePage + 2, CodePage + 3}
    /\ first = NULL
    /\ prot = [p \in {CodePage, FarPage} |-> PAGE_EXECUTE_READ]
    /\ original = NULL
    /\ last = NoCall
    /\ prev = NoCall
    /\ depth = [t \in Targets \cup JmpTargets |-> 0]
    /\ saved = [t \in Targets \cup JmpTargets |-> <<>>]
    /\ nops = 0

MaxJmp == 3

NextJmp ==
    \/ \E t \in JmpTargets, d \in Detours, h \in BOOLEAN :
          nops < MaxJmp /\ Hook(t, d, h, TRUE, TRUE)
    \/ \E t \in JmpTargets :
          nops < MaxJmp /\ Unhook(t, TRUE)

SpecJmp == InitJmp /\ [][NextJmp]_vars

(***************************************************************************)
(* A fourth environment: a process that has already hooked T1 PrefillHooks  *)
(* times (each call a successful nmd_hook(T1, DNear, 0)), which leaves the  *)
(* first hook page with a last Free record of 24 bytes.                     *)
(***************************************************************************)
PrefillHooks == 290

\* The program state a call of nmd_hook with result r leaves.
StateOf(r) ==
    [mem |-> r.mem, first |-> r.first, free |-> r.free, prot |-> r.prot,
     original |-> r.original]

\* The program state after a call nmd_hook(target, detour, 0) in state s
\* (the test makes s a value before the call is evaluated).
HookOnce(s, target, detour) ==
    IF s.first = s.first THEN StateOf(nmd_hook(s, target, detour, FALSE, TRUE, TRUE))
    ELSE s

\* The program state after k such calls from state s.
RECURSIVE HookTimes(_, _, _, _)
HookTimes(s, target, detour, k) ==
    IF k = 0 \/ s.first # s.first THEN s
    ELSE IF k = 1 THEN HookOnce(s, target, detour)
    ELSE HookTimes(HookTimes(s, target, detour, k \div 2), target, detour, k - (k \div 2))

FullTargets == {T1, T3}

InitFull ==
    /\ \E s \in {HookTimes([mem |-> InitCode, first |-> NULL,
                            free |-> {CodePage + 2, CodePage + 3},
                            prot |-> [p \in {CodePage, FarPage} |-> PAGE_EXECUTE_READ],
                            original |-> NULL], T1, DNear, PrefillHooks)} :
          /\ mem = s.mem
          /\ vmFree = s.free
          /\ first = s.first
          /\ prot = s.prot
          /\ original = s.original
    /\ last = NoCall
    /\ prev = NoCall
    /\ depth = [t \in Targets |-> IF t = T1 THEN PrefillHooks ELSE 0]
    /\ saved = [t \in Targets |-> IF t = T1 THEN SubSeq(CodeBytes(T1), 1, JmpSize) ELSE <<>>]
    /\ nops = 0

MaxFull == 3

NextFull ==
    \/ \E t \in FullTargets, h \in BOOLEAN :
          nops < MaxFull /\ Hook(t, DNear, h, TRUE, TRUE)
    \/ \E t \in FullTargets :
          nops < MaxFull /\ Unhook(t, TRUE)

SpecFull == InitFull /\ [][NextFull]_vars

(***************************************************************************)
(* Hooks that succeed and unhooks for which the OS grants or denies the     *)
(* protection change.                                                       *)
(***************************************************************************)
MaxProt == 4

NextProt ==
    \/ \E t \in SeqTargets :
          nops < MaxProt /\ Hook(t, DNear, TRUE, TRUE, TRUE)
    \/ \E t \in SeqTargets, p \in BOOLEAN :
          nops < MaxProt /\ Unhook(t, p)

SpecProt == Init /\ [][NextProt]_vars

(***************************************************************************)
(* Serialized hooks and unhooks of distinct functions: a function is        *)
(* hooked only while it is not hooked, and unhooked only while it is.       *)
(***************************************************************************)
MaxInd == 6

NextInd ==
    \/ \E t \in SeqTargets, h \in BOOLEAN :
          nops < MaxInd /\ depth[t] = 0 /\ Hook(t, DNear, h, TRUE, TRUE)
    \/ \E t \in SeqTargets :
          nops < MaxInd /\ depth[t] = 1 /\ Unhook(t, TRUE)

SpecInd == Init /\ [][NextInd]_vars

(***************************************************************************)
(* C1: nmd_hook of a target that is not hooked followed by nmd_unhook of    *)
(* the same target succeeds and restores the first num_copy_bytes bytes at  *)
(* target to what they were before the hook, whatever the shape of the      *)
(* prologue; and an nmd_unhook that follows a successful nmd_unhook of the  *)
(* same target returns false.                                              *)
(***************************************************************************)
C1_RoundTrip ==
    LET t == last.target
        before == depth[t] + (IF last.ret = "true" THEN 1 ELSE 0)
    IN  /\ (prev.op = "hook" /\ prev.ret = "true" /\ last.op = "unhook" /\ last.protOK
            /\ t = prev.target /\ before = 1)
               => (last.ret = "true" /\ RdBytes(mem, t, prev.n) = saved[t])
        /\ (prev.op = "unhook" /\ prev.ret = "true" /\ last.op = "unhook"
            /\ t = prev.target /\ before = 0)
               => last.ret = "false"

(***************************************************************************)
(* C2: nmd_unhook of an address that is not currently hooked returns false  *)
(* and leaves the hook pages, the page list and the bytes at the address    *)
(* unchanged.                                                              *)
(***************************************************************************)
C2_UnhookOfUnhooked ==
    [][(last'.op = "unhook" /\ depth[last'.target] = 0)
          => (last'.ret = "false" /\ mem' = mem /\ first' = first)]_vars

(***************************************************************************)
(* C3: a call of nmd_hook that does not succeed returns false (it does not  *)
(* crash) and leaves the bytes of the target's page as they were.           *)
(***************************************************************************)
C3_HookFailureAtomic ==
    [][(last'.op = "hook" /\ last'.ret # "true")
          => (last'.ret = "false"
              /\ mem'[last'.target[1]] = mem[last'.target[1]])]_vars

(***************************************************************************)
(* C4: whenever nmd_hook returns after it changed the protection of the     *)
(* target, the protection of the target is again what it was before the     *)
(* call, also when the absolute jump could not be allocated.                *)
(***************************************************************************)
C4_ProtectionRestored ==
    [][(last'.op = "hook" /\ last'.protChanged /\ last'.ret # "crash")
          => prot' = prot]_vars

(***************************************************************************)
(* C5: when the protection change fails during nmd_hook, the trampoline     *)
(* record the call allocated is Free again when nmd_hook returns false.     *)
(***************************************************************************)
C5_TrampolineFreedOnProtectFailure ==
    (last.op = "hook" /\ last.ret = "false" /\ ~last.protOK /\ last.tramp # NULL)
        => RecType(mem, AAdd(last.tramp, -DataHdrSize)) = TYPE_NONE

(***************************************************************************)
(* C6: after any sequence of calls every hook page is exactly tiled by its  *)
(* records: followed header by header from the first record, the last       *)
(* record ends exactly at offset 0x1000 of the page.                        *)
(***************************************************************************)
C6_PageTiling ==
    Alive => \A i \in DOMAIN HookPages : Tiled(mem, HookPages[i])

(***************************************************************************)
(* C7 as stated: after nmd_unhook freed a record, a request for at most     *)
(* the size of the freed record returns the payload of the freed record     *)
(* and the page list does not grow.                                         *)
(***************************************************************************)
C7_ReuseFreed ==
    [][(last.op = "unhook" /\ last.ret = "true" /\ last'.op = "hook"
        /\ last'.n + JmpSize <= RecSize(mem, last.hd))
          => (last'.tramp = AAdd(last.hd, DataHdrSize)
              /\ PagesFrom(mem', first') = HookPages)]_vars

(***************************************************************************)
(* C7, amended: after nmd_unhook freed a record, a request for at most the  *)
(* size of the freed record succeeds without growing the page list and      *)
(* returns the payload of the first Free record, in page and address order, *)
(* that can hold the request: the freed record or a Free record before it.  *)
(***************************************************************************)
C7_ReuseFirstFit ==
    [][(last.op = "unhook" /\ last.ret = "true" /\ last'.op = "hook"
        /\ last'.n + JmpSize <= RecSize(mem, last.hd))
          => (/\ last'.tramp # NULL
              /\ last'.tramp = AAdd(FirstFit(mem, HookPages, last'.n + JmpSize), DataHdrSize)
              /\ ALe(last'.tramp, AAdd(last.hd, DataHdrSize))
              /\ PagesFrom(mem', first') = HookPages)]_vars

\* A hook got the payload of the record the call before it freed.
C7_Reused ==
    /\ prev.op = "unhook" /\ prev.ret = "true"
    /\ last.op = "hook" /\ last.ret = "true"
    /\ last.tramp = AAdd(prev.hd, DataHdrSize)

(***************************************************************************)
(* C8 as stated: once nmd_unhook freed a record, the freed record does not  *)
(* lie next to another Free record of its page, whichever of the two was    *)
(* freed first: the two have been merged into one.                          *)
(***************************************************************************)
C8_MergeEitherOrder ==
    (last.op = "unhook" /\ last.ret = "true")
        => LET recs == RecWalk(mem, PageOf(last.hd)).recs
           IN  \A i \in 1..(Len(recs) - 1) :
                  (recs[i] = last.hd[2] \/ recs[i + 1] = last.hd[2])
                      => ~(IsFree(mem, <<last.hd[1], recs[i]>>)
                           /\ IsFree(mem, <<last.hd[1], recs[i + 1]>>))

(***************************************************************************)
(* C8, amended: nmd_unhook makes the record Free and, if the record that    *)
(* follows it in the page is Free, adds that record's size plus its header  *)
(* to the freed record's size; otherwise the size stays.  Nothing else in   *)
(* the hook pages changes, so a Free record before the freed one stays a    *)
(* separate record.                                                        *)
(***************************************************************************)
C8_MergeForward ==
    [][(last'.op = "unhook" /\ last'.ret = "true")
          => LET hd == last'.hd
                 size == RecSize(mem, hd)
                 next == AAdd(hd, DataHdrSize + size)
                 merged == IF Low12(next) # 0 /\ IsFree(mem, next)
                           THEN (size + DataHdrSize + RecSize(mem, next)) % 65536
                           ELSE size
             IN  /\ IsFree(mem', hd)
                 /\ RecSize(mem', hd) = merged
                 /\ \A p \in DOMAIN mem \ {last'.target[1]} :
                       mem'[p] = IF p = hd[1]
                                 THEN [mem[p] EXCEPT ![hd[2]] = mem'[p][hd[2]],
                                                     ![hd[2] + 1] = mem'[p][hd[2] + 1],
                                                     ![hd[2] + 2] = mem'[p][hd[2] + 2],
                                                     ![hd[2] + 3] = mem'[p][hd[2] + 3]]
                                 ELSE mem[p]]_vars

\* An unhook merged the freed record with the Free record after it.
C8_Merged ==
    /\ last.op = "unhook" /\ last.ret = "true"
    /\ RecSize(mem, last.hd) > last.n + JmpSize

(***************************************************************************)
(* C9: when a hook page exists and the allocator obtains a new page from    *)
(* the OS, the new page is linked at the end of the page list and the       *)
(* allocation returns a record of the new page.                             *)
(***************************************************************************)
C9_PageGrowth ==
    [][(last'.op = "hook" /\ first # NULL /\ vmFree' # vmFree)
          => LET new == vmFree \ vmFree'
             IN  /\ \E p \in new : PagesFrom(mem', first') = Append(HookPages, <<p, 0>>)
                 /\ \/ last'.tramp # NULL /\ last'.tramp[1] \in new
                    \/ last'.absj # NULL /\ last'.absj[1] \in new]_vars

(***************************************************************************)
(* C10: when the OS refuses to provide a page and the allocation for the    *)
(* trampoline yields no record, nmd_hook gets null back (it returns false)  *)
(* and no memory was written, whether or not hook pages exist already.      *)
(***************************************************************************)
C10_AllocFailureReturnsNull ==
    [][(last'.op = "hook" /\ ~last'.osOK /\ last'.tramp = NULL)
          => (last'.ret = "false" /\ mem' = mem)]_vars

(***************************************************************************)
(* C11: every record address the allocator returns to nmd_hook for a        *)
(* target (the trampoline, the absolute jump) lies within 2^31 - 0x1000     *)
(* bytes of the target.                                                     *)
(***************************************************************************)
C11_Reachability ==
    last.op = "hook"
        => /\ last.tramp # NULL => WithinReach(last.tramp, last.target)
           /\ last.absj # NULL => WithinReach(last.absj, last.target)

\* Where the processor goes when it executes the jmp rel32 stored at a.
JumpDest(m, a) == AAddD(AAdd(a, 5), Int32Of(RdBytes(m, AAdd(a, 1), 4)))

(***************************************************************************)
(* C12: after a successful nmd_hook the five bytes at target are E9 and a   *)
(* rel32; the jump leads to detour when detour - (target + 5) fits an       *)
(* int32, and otherwise to an absolute-jump record allocated by this call   *)
(* whose 12 bytes are mov rax, detour; jmp rax.                             *)
(***************************************************************************)
C12_PatchShape ==
    (last.op = "hook" /\ last.ret = "true")
        => /\ Rd8(mem, last.target) = 233
           /\ IF FitsInt32(ASub(last.detour, AAdd(last.target, 5)))
              THEN JumpDest(mem, last.target) = last.detour
              ELSE /\ last.absj # NULL
                   /\ JumpDest(mem, last.target) = last.absj
                   /\ RecType(mem, AAdd(last.absj, -DataHdrSize)) = TYPE_ABSOLUTE_JUMP
                   /\ RdBytes(mem, last.absj, 2) = <<72, 184>>
                   /\ PtrOf(RdBytes(mem, AAdd(last.absj, 2), 8)) = last.detour
                   /\ RdBytes(mem, AAdd(last.absj, 10), 2) = <<255, 224>>

\* The bytes of the function at t before any call.
OrigBytes(t) == IF t \in {TL, TW} THEN LowCodeBytes(t) ELSE CodeBytes(t)

(***************************************************************************)
(* C13: when nmd_hook patches a function that still has its original        *)
(* bytes, the number of bytes it moves to the trampoline is at least 5 and  *)
(* ends on an instruction boundary of the function: the first boundary at   *)
(* or after byte 5.                                                         *)
(***************************************************************************)
C13_PatchWindow ==
    (/\ last.op = "hook"
     /\ last.ret = "true"
     /\ depth[last.target] = 1
     /\ saved[last.target] = SubSeq(OrigBytes(last.target), 1, last.n))
        => /\ last.n >= JmpSize
           /\ last.n \in Boundaries(last.target)
           /\ \A b \in Boundaries(last.target) : b >= JmpSize => b >= last.n

\* Every record of every hook page is Free.
AllFree(m, pages) ==
    \A i \in DOMAIN pages :
        \A j \in DOMAIN RecWalk(m, pages[i]).recs :
            IsFree(m, <<pages[i][1], RecWalk(m, pages[i]).recs[j]>>)

(***************************************************************************)
(* C14: the records a successful nmd_hook created (the trampoline and, for  *)
(* a far detour, the absolute jump) are Free after the nmd_unhook that      *)
(* matches it; when that pair is all that ever ran, no hook page holds a    *)
(* record that is not Free.                                                 *)
(***************************************************************************)
C14_RecordLifecycle ==
    (/\ prev.op = "hook" /\ prev.ret = "true"
     /\ last.op = "unhook" /\ last.ret = "true"
     /\ last.target = prev.target)
        => /\ IsFree(mem, AAdd(prev.tramp, -DataHdrSize))
           /\ prev.absj # NULL => IsFree(mem, AAdd(prev.absj, -DataHdrSize))
           /\ nops = 2 => AllFree(mem, HookPages)

(***************************************************************************)
(* C15: after a successful nmd_hook of a function whose first byte is not   *)
(* E9, the pointer handed back through original leads to bytes that begin   *)
(* with the num_copy_bytes original bytes of the function, followed by a    *)
(* jmp rel32 whose destination is exactly target + num_copy_bytes.          *)
(***************************************************************************)
C15_TrampolineContents ==
    (/\ last.op = "hook" /\ last.ret = "true" /\ last.hasOriginal
     /\ depth[last.target] = 1
     /\ saved[last.target][1] # 233)
        => /\ original = last.tramp
           /\ RdBytes(mem, original, last.n) = saved[last.target]
           /\ Rd8(mem, AAdd(original, last.n)) = 233
           /\ JumpDest(mem, AAdd(original, last.n)) = AAdd(last.target, last.n)

(***************************************************************************)
(* C16: for an instruction with a one-byte opcode and no prefix, in 32-bit  *)
(* and in 64-bit mode, _nmd_mem_ldisasm returns the instruction's length:   *)
(* opcode, ModR/M, SIB, displacement and immediate.                         *)
(***************************************************************************)
C16_OneByteLengths ==
    (/\ last.op = "ldisasm"
     /\ \E e \in OneByteForms : e[1] = last.code
     /\ RefLength(last.code, last.x86_64_mode) # 0)
        => last.ret = RefLength(last.code, last.x86_64_mode)

(***************************************************************************)
(* C17: for every byte sequence and both modes _nmd_mem_ldisasm returns at  *)
(* least 1.                                                                 *)
(***************************************************************************)
C17_LengthAtLeastOne == last.op = "ldisasm" => last.ret >= 1

\* A call that returned exactly 1.
C17_LengthOne == last.op = "ldisasm" /\ last.code = <<144, 0>> /\ last.ret = 1

(***************************************************************************)
(* C18: for an instruction that begins with the escape byte 0F,             *)
(* _nmd_mem_ldisasm counts the escape byte, the second opcode byte and the  *)
(* operands (0F 8x rel32 is 6, 0F B6 /r with mod 11 is 3), and never        *)
(* returns less than 2.                                                     *)
(***************************************************************************)
C18_TwoByteLengths ==
    (last.op = "ldisasm" /\ last.code[1] = 15)
        => /\ last.ret >= 2
           /\ RefLength(last.code, last.x86_64_mode) # 0
                  => last.ret = RefLength(last.code, last.x86_64_mode)

(***************************************************************************)
(* C19: in 64-bit mode, with a REX.W prefix, the forms that take an imm32   *)
(* (81 /r, C7 /0, 05, 69 /r, ...) are counted with a 4-byte immediate;      *)
(* only B8..BF are counted with an 8-byte immediate.                        *)
(***************************************************************************)
C19_RexWImmediates ==
    (/\ last.op = "ldisasm"
     /\ last.x86_64_mode
     /\ \E e \in RexWForms : e[1] = last.code)
        => last.ret = RefLength(last.code, TRUE)

\* The bytes after the opcode that a ModR/M byte modrm followed by sib
\* stands for, without an address-size prefix.
ModrmBytes(modrm, sib) ==
    LET mod == modrm \div 64
        rm == modrm % 8
        hasSIB == rm = 4 /\ mod # 3
    IN  1 + (IF hasSIB THEN 1 ELSE 0)
          + (IF mod = 1 THEN 1
             ELSE IF mod = 2 THEN 4
             ELSE IF mod = 0 /\ rm = 5 THEN 4
             ELSE IF mod = 0 /\ hasSIB /\ sib % 8 = 5 THEN 4
             ELSE 0)

(***************************************************************************)
(* C20: without an address-size prefix, the bytes _nmd_mem_parse_modrm      *)
(* consumes after the opcode are the ModR/M byte, a SIB byte when r/m is    *)
(* 100 and mod is not 11, and a displacement of 1 byte for mod 01, 4 bytes  *)
(* for mod 10, for mod 00 with r/m 101 and for mod 00 with SIB base 101,    *)
(* and none otherwise (seen on mov r/m32, r32, whose length is 1 more).     *)
(***************************************************************************)
C20_ModrmDecoding ==
    (last.op = "ldisasm" /\ last.code \in ModrmInputs)
        => last.ret = 1 + ModrmBytes(last.code[2], last.code[3])

\* mod 00, r/m 100, SIB base 101: ModR/M, SIB and disp32.
C20_SibDisp32 == last.op = "ldisasm" /\ last.code = <<137, 4, 5>> /\ last.ret = 7

(***************************************************************************)
(* C21: when the function hooked begins with E9, the jump nmd_hook writes   *)
(* at the start of the trampoline leads to the same address as the jump     *)
(* that was at target, whatever the displacement and wherever the           *)
(* trampoline lies.                                                         *)
(***************************************************************************)
C21_NearJumpRelocation ==
    (/\ last.op = "hook" /\ last.ret = "true"
     /\ depth[last.target] = 1
     /\ saved[last.target][1] = 233)
        => /\ Rd8(mem, last.tramp) = 233
           /\ JumpDest(mem, last.tramp)
                  = AAddD(AAdd(last.target, 5), Int32Of(SubSeq(saved[last.target], 2, 5)))

\* The offset in its page at which the record with header hd ends.
RecEnd(m, hd) == hd[2] + DataHdrSize + RecSize(m, hd)

(***************************************************************************)
(* C22: when nmd_hook (near detour) gets its trampoline from a Free record  *)
(* that is not the last record of its page, the bytes of the page from the  *)
(* end of that Free record on (the headers and payloads of all following    *)
(* records) are left as they were.                                          *)
(***************************************************************************)
C22_SplitFrame ==
    [][(/\ last'.op = "hook" /\ last'.tramp # NULL /\ last'.absj = NULL
        /\ Mapped(mem, last'.tramp)
        /\ IsFree(mem, AAdd(last'.tramp, -DataHdrSize))
        /\ RecEnd(mem, AAdd(last'.tramp, -DataHdrSize)) < PageSize)
           => \A o \in RecEnd(mem, AAdd(last'.tramp, -DataHdrSize))..(PageSize - 1) :
                  mem'[last'.tramp[1]][o] = mem[last'.tramp[1]][o]]_vars

\* The last 5 bytes of the payload of the record with header hd are a jmp
\* rel32 to t + (size - 5) for one of the functions t.
TailJumpOK(m, hd) ==
    /\ RecSize(m, hd) >= JmpSize
    /\ Rd8(m, AAdd(hd, DataHdrSize + RecSize(m, hd) - JmpSize)) = 233
    /\ \E t \in Targets :
          JumpDest(m, AAdd(hd, DataHdrSize + RecSize(m, hd) - JmpSize))
              = AAdd(t, RecSize(m, hd) - JmpSize)

(***************************************************************************)
(* C23: in every reachable state, every Trampoline record of every hook     *)
(* page ends with the displacement of a near jump to target + (size - 5)    *)
(* for a hooked function (also when the record absorbed a remainder), and   *)
(* so nmd_unhook finds the record of a function that is hooked.             *)
(***************************************************************************)
C23_LookupInvariant ==
    Alive =>
        /\ \A i \in DOMAIN HookPages :
              \A j \in DOMAIN RecWalk(mem, HookPages[i]).recs :
                  RecType(mem, <<HookPages[i][1], RecWalk(mem, HookPages[i]).recs[j]>>)
                          = TYPE_TRAMPOLINE
                      => TailJumpOK(mem, <<HookPages[i][1], RecWalk(mem, HookPages[i]).recs[j]>>)
        /\ (last.op = "unhook" /\ last.ret = "false") => depth[last.target] = 0

\* The writes ws, made in that order, leave memory m: each is found in m,
\* the only write at target is the last one, and the ones before it go to
\* hook pages.
WritesInOrder(ws, m, target, pages) ==
    /\ \A i \in DOMAIN ws : RdBytes(m, ws[i].at, Len(ws[i].bytes)) = ws[i].bytes
    /\ \A i \in DOMAIN ws : ws[i].at = target <=> i = Len(ws)
    /\ \A i \in DOMAIN ws :
          i < Len(ws) => \E j \in DOMAIN pages : pages[j] = PageOf(ws[i].at)

ReachesProtect(target) == nmd_unhook(State, target, TRUE).hd # NULL

(***************************************************************************)
(* C25: when nmd_unhook finds the record of target and the protection       *)
(* change is denied, it returns false and leaves memory as it was (target   *)
(* still patched, the record still a Trampoline of the same size); an       *)
(* nmd_unhook of the same target that follows, with the change granted,     *)
(* returns true.                                                            *)
(***************************************************************************)
C25_UnhookProtectFailure ==
    [][/\ (last'.op = "unhook" /\ ~last'.protOK /\ ReachesProtect(last'.target))
           => (last'.ret = "false" /\ mem' = mem)
       /\ (/\ last.op = "unhook" /\ ~last.protOK /\ ReachesProtect(last.target)
           /\ last'.op = "unhook" /\ last'.target = last.target /\ last'.protOK)
           => last'.ret = "true"]_vars

\* A denied nmd_unhook followed by a successful one of the same target.
C25_DeniedThenUnhooked ==
    /\ prev.op = "unhook" /\ ~prev.protOK /\ prev.ret = "false"
    /\ last.op = "unhook" /\ last.protOK /\ last.ret = "true"
    /\ last.target = prev.target

(***************************************************************************)
(* C26: in a serialized run of successful hooks and unhooks of distinct     *)
(* functions, nmd_unhook of a function that is hooked returns true, puts    *)
(* back that function's original bytes, and leaves the bytes of every       *)
(* other function as they are.                                              *)
(***************************************************************************)
C26_Independence ==
    [][(last'.op = "unhook" /\ depth[last'.target] = 1)
           => /\ last'.ret = "true"
              /\ RdBytes(mem', last'.target, Len(saved[last'.target])) = saved[last'.target]
              /\ \A u \in SeqTargets \ {last'.target} :
                    RdBytes(mem', u, Len(OrigBytes(u))) = RdBytes(mem, u, Len(OrigBytes(u)))]_vars

\* The walk that ended as w read its last header inside the page hook_page
\* and came to an end.
WalkInPage(w, hook_page) == w.st \notin {"fault", "go"} /\ PageOf(w.hd) = hook_page

(***************************************************************************)
(* C27: the record walks of _nmd_unhook_page and _nmd_find_free_hook_data   *)
(* over the first hook page read record headers only inside that page and   *)
(* end at the page's end.                                                   *)
(***************************************************************************)
C27_ScansInsidePage ==
    [][/\ (last'.op = "unhook" /\ first # NULL)
           => WalkInPage(UnhookLoop(mem, last'.target,
                             [hd |-> AAdd(first, PageHdrSize), st |-> "go"], WalkBound),
                         first)
       /\ (last'.op = "hook" /\ first # NULL /\ InRange(first, last'.target))
           => WalkInPage(find_free_hook_data(mem, first, last'.n + JmpSize), first)]_vars

\* 1 if the call c returned true, else 0.
Succeeded(c) == IF c.ret = "true" THEN 1 ELSE 0

(***************************************************************************)
(* C28: after two successful nmd_hook calls on one function with no         *)
(* nmd_unhook between them, two nmd_unhook calls on it both return true     *)
(* and leave at the function the bytes it had before the first hook.        *)
(***************************************************************************)
C28_Rehooking ==
    (/\ nops = 4
     /\ prev.op = "unhook" /\ last.op = "unhook"
     /\ prev.target = last.target
     /\ depth[last.target] + Succeeded(prev) + Succeeded(last) = 2)
        => /\ prev.ret = "true"
           /\ last.ret = "true"
           /\ RdBytes(mem, last.target, Len(saved[last.target])) = saved[last.target]

(***************************************************************************)
(* C29: a call of nmd_hook that returns false leaves the variable that      *)
(* 'original' points to unchanged.                                          *)
(***************************************************************************)
C29_OriginalOnFailure ==
    [][(last'.op = "hook" /\ last'.ret = "false") => original' = original]_vars

\* The number of bytes the prefix loop of _nmd_mem_ldisasm skips on bs.
PrefixesSkipped(bs, x86_64_mode) ==
    ParsePrefixes(CodeOf(bs), x86_64_mode, 0,
        [b |-> 0, operandPrefix |-> FALSE, addressPrefix |-> FALSE, rexW |-> FALSE]).b

(***************************************************************************)
(* C30: in both modes _nmd_mem_ldisasm skips at most 14 prefix bytes,       *)
(* legacy prefixes and REX bytes together, before it classifies the         *)
(* opcode, so its result is bounded (also on a run of bytes 40..4F in       *)
(* 64-bit mode).                                                            *)
(***************************************************************************)
C30_BoundedPrefixScan ==
    last.op = "ldisasm"
        => /\ PrefixesSkipped(last.code, last.x86_64_mode) <= MaxPrefixes
           /\ last.ret <= MaxPrefixes + 15

=============================================================================
